---- MODULE Spec2Model ----
(***************************************************************************)
(* Model of the sync-rs relay: the session store, the command router       *)
(* (handle_command), the garbage collection sweep (gc_sessions) and the    *)
(* connection handler (Server::on_message / Server::on_close) of           *)
(* src/src/main.rs.                                                        *)
(*                                                                         *)
(* Time is an Instant counted in seconds.  Option<T> is modelled as a set  *)
(* with at most one element: None is {} and Some(x) is {x}.  The session   *)
(* store, a HashMap<String, Session>, is a function whose domain is the    *)
(* set of names present.  Session.clients, a HashMap<Token, Client>, is    *)
(* modelled by its key set, a Client being determined by its Token.        *)
(*                                                                         *)
(* Spec runs the server with two connections over every name and token,    *)
(* SpecScenario with every connection over one name and one token and more *)
(* frames, SpecForward with two connections over every name and one token  *)
(* and one frame more than Spec, and SpecSession applies the methods of    *)
(* the Session of src/src/session.rs, whose clients are a Vec, to a        *)
(* constructed Session as time passes and its owner leaves.                *)
(***************************************************************************)
EXTENDS Integers, Sequences, FiniteSets, TLC

\* ---------------------------------------------------------------- bounds
\* largest tick value a client sends
MaxTick == 1
\* the clock advances at most this many times
MaxClock == 2
\* the server handles at most this many inbound frames
MaxFrames == 3
\* ... and at most this many in the single-session scenarios
ScenarioFrames == 5
\* ... and at most this many where one connection owns two sessions
ForwardFrames == 4
\* a Session of session.rs is given at most this many clients
MaxMembers == 2

\* connection tokens (mio Token of each accepted connection)
Peers == {1, 2, 3}
\* the connections that are opened when every name and token is in use
TwoPeers == {1, 2}
\* session names clients use
Names == {"foo", "baz"}
\* owner tokens clients use
Tokens == {"bar", "qux"}
Ticks == 0..MaxTick
\* the session name and the token of the single-session scenarios
ScenarioNames == {"foo"}
ScenarioTokens == {"bar"}

\* ------------------------------------------------------------- constants
\* const TIMEOUT: Duration = Duration::from_secs(15 * 60)
TIMEOUT == 15 * 60
\* the amount of time that passes in one step of the clock
TimeStep == TIMEOUT

None == {}
Some(x) == {x}
Unwrap(o) == CHOOSE x \in o : TRUE

VARIABLES
    sessions,   \* the session store: name -> Session, for the names present
    conn,       \* per connection: "new" (not accepted yet), "open", "closed"
    now,        \* current Instant, in seconds
    out,        \* per connection: the messages sent to it by the last step
    last,       \* the frame or event the last step handled
    committed,  \* history: per name, the last owner-authorised tick and play
                \* of the session inserted last under that name
    before,     \* the session store as it was before the last step
    frames,     \* number of inbound frames handled so far
    limit,      \* number of inbound frames the server handles at most
    failed,     \* the members for which the send of the forwarded command
                \* returned Err in the last step
    result,     \* what the last call of on_message returned: "Ok" or "Err"
    veterans,   \* history: per name, the members the session under that name
                \* had when its owner last disconnected and that have not
                \* disconnected since; empty for a newly inserted session
    absent,     \* history: name -> when the owner of the session under that
                \* name disconnected and its owner_token, until the session
                \* is reclaimed or a new one is inserted under the name
    former,     \* history: per name, the connections that owned the session
                \* under that name, were connected when a Create carrying its
                \* token gave it to another connection, and have neither
                \* taken it back nor disconnected since
    rs,         \* a Session of session.rs (<< >> while none is constructed)
    inactive    \* the last call of Session::inactive_time on rs: its argument,
                \* the owner_left it read and what came of it

\* everything of the server but the clock
relay_vars == <<sessions, conn, out, last, before, committed, frames,
                limit, failed, result, veterans, absent, former>>

server_vars == <<relay_vars, now>>

vars == <<server_vars, rs, inactive>>

\* ------------------------------------------------------------- messages
\* the SyncCommand variants the server sends, as serialised by serde: tagged
\* by "type", with the fields of the variant
TickCmd(s, t) == [type |-> "tick", session |-> s, tick |-> t]
PlayCmd(s, p) == [type |-> "play", session |-> s, play |-> p]

\* ------------------------------------------------------------- Session
SessionNew(owner, owner_token) ==
    [owner |-> owner, owner_token |-> owner_token, clients |-> {},
     playing |-> FALSE, tick |-> 0, owner_left |-> None]

\* Session::join: clients.insert(client.token(), client)
join(session, client) == [session EXCEPT !.clients = @ \cup {client}]

\* mutant: the play message is sent before the tick message
initial_state_swapped(session, name) ==
    <<PlayCmd(name, session.playing), TickCmd(name, session.tick)>>

\* the two messages a Join sends to the caller, in order
initial_state(session, name) ==
    <<TickCmd(name, session.tick), PlayCmd(name, session.playing)>>

\* the update closures of Tick and Play
set_tick(session, tick) == [session EXCEPT !.tick = tick]
set_playing(session, play) == [session EXCEPT !.playing = play]

\* mutant: ownership is taken without comparing the token
set_owner_unchecked(session, owner, owner_token) ==
    [session EXCEPT !.owner = owner, !.owner_left = None]

\* mutant: the caller becomes the owner but the absence marker is not cleared
set_owner_keeping_marker(session, owner, owner_token) ==
    IF owner_token = session.owner_token
    THEN [session EXCEPT !.owner = owner]
    ELSE session

\* mutant: a matching Create replaces the session by a new one
set_owner_fresh(session, owner, owner_token) ==
    IF owner_token = session.owner_token
    THEN SessionNew(owner, owner_token)
    ELSE session

\* mutant: a Create with another token replaces the stored token
set_owner_rekeying(session, owner, owner_token) ==
    IF owner_token = session.owner_token
    THEN [session EXCEPT !.owner = owner, !.owner_left = None]
    ELSE [session EXCEPT !.owner_token = owner_token]

\* the and_modify closure of Create / Session::set_owner
set_owner(session, owner, owner_token) ==
    IF owner_token = session.owner_token
    THEN [session EXCEPT !.owner = owner, !.owner_left = None]
    ELSE session

\* Instant::duration_since (saturating)
duration_since(later, earlier) == IF later >= earlier THEN later - earlier ELSE 0

\* mutant: a session whose owner never left is not retained
gc_retain_none_dropped(session, t) ==
    IF session.owner_left = None
    THEN FALSE
    ELSE duration_since(t, Unwrap(session.owner_left)) > TIMEOUT

\* mutant: a session without a marker is treated as abandoned at time 0
gc_retain_aging(session, t) ==
    IF session.owner_left = None
    THEN duration_since(t, 0) <= TIMEOUT
    ELSE duration_since(t, Unwrap(session.owner_left)) > TIMEOUT

\* the predicate gc_sessions hands to HashMap::retain
gc_retain(session, t) ==
    IF session.owner_left = None
    THEN TRUE
    ELSE duration_since(t, Unwrap(session.owner_left)) > TIMEOUT

\* gc_sessions: HashMap::retain with the predicate above
gc_sessions(store, t) ==
    [n \in {m \in DOMAIN store : gc_retain(store[m], t)} |-> store[n]]

NoOutput == [p \in Peers |-> <<>>]

\* mutant: the command is sent to every connection, member or not
send_command_everyone(session, command, failing) ==
    [p \in Peers |-> <<command>>]

\* mutant: the first send that fails ends the loop (`?` in place of `.ok()`),
\* the clients being visited in the order of their tokens
send_command_aborting(session, command, failing) ==
    [p \in Peers |->
        IF p \in session.clients
           /\ ~ \E q \in session.clients \cap failing : q < p
        THEN <<command>> ELSE <<>>]

\* Session::send_command: one send of the command to every client; the result
\* of each send is discarded (`.ok()`), so the sends that fail change nothing
send_command(session, command, failing) ==
    [p \in Peers |-> IF p \in session.clients THEN <<command>> ELSE <<>>]

\* mutant: the owner check is missing
update_session_and_forward_any(sender, store, session_name, updated, command, failing) ==
    IF session_name \in DOMAIN store
    THEN [store |-> [store EXCEPT ![session_name] = updated],
          sent |-> send_command(updated, command, failing)]
    ELSE [store |-> store, sent |-> NoOutput]

\* mutant: a command for a session that is not in the store is sent back
update_session_and_forward_echo(sender, store, session_name, updated, command, failing) ==
    IF session_name \in DOMAIN store
    THEN IF store[session_name].owner = sender
         THEN [store |-> [store EXCEPT ![session_name] = updated],
               sent |-> send_command(updated, command, failing)]
         ELSE [store |-> store, sent |-> NoOutput]
    ELSE [store |-> store, sent |-> [NoOutput EXCEPT ![sender] = <<command>>]]

\* mutant: the command goes to the clients of every session of the sender
update_session_and_forward_owned(sender, store, session_name, updated, command, failing) ==
    IF session_name \in DOMAIN store
    THEN IF store[session_name].owner = sender
         THEN [store |-> [store EXCEPT ![session_name] = updated],
               sent |-> [p \in Peers |->
                   IF \E m \in DOMAIN store :
                         store[m].owner = sender /\ p \in store[m].clients
                   THEN <<command>> ELSE <<>>]]
         ELSE [store |-> store, sent |-> NoOutput]
    ELSE [store |-> store, sent |-> NoOutput]

\* update_session_and_forward: the resulting store and the messages sent
update_session_and_forward(sender, store, session_name, updated, command, failing) ==
    IF session_name \in DOMAIN store
    THEN IF store[session_name].owner = sender
         THEN [store |-> [store EXCEPT ![session_name] = updated],
               sent |-> send_command(updated, command, failing)]
         ELSE [store |-> store, sent |-> NoOutput]
    ELSE [store |-> store, sent |-> NoOutput]

Event(op, peer, session, token, tick, play) ==
    [op |-> op, peer |-> peer, session |-> session, token |-> token,
     tick |-> tick, play |-> play]

\* ------------------------------------------------------------- on_message
\* inbound frames that are not commands: a binary frame, text that is not
\* JSON, and JSON tagged with a type SyncCommand does not have
BadFrames ==
    {[kind |-> "binary", type |-> ""], [kind |-> "text", type |-> ""],
     [kind |-> "text", type |-> "clients"], [kind |-> "text", type |-> "leave"]}

\* the tags of the SyncCommand variants
CommandTypes == {"create", "join", "tick", "play"}

\* serde_json::from_str::<SyncCommand>(msg.as_text().unwrap_or_default()):
\* the variant decoded, None when decoding fails
from_str(frame) ==
    IF frame.kind = "text" /\ frame.type \in CommandTypes
    THEN Some(frame.type) ELSE None

\* mutant: a frame that does not decode is reported as an error
on_message_result_strict(decoded) == IF decoded = None THEN "Err" ELSE "Ok"

\* what on_message returns: Ok(()) on both arms of the match
on_message_result(decoded) == "Ok"

\* -------------------------------------------------------------- on_close
\* mutant: the sessions the closing connection owns are dropped
close_sessions_dropping(store, token, t) ==
    [n \in {m \in DOMAIN store : store[m].owner # token} |->
        [store[n] EXCEPT !.clients = @ \ {token}]]

\* mutant: the closing connection stays a member
close_sessions_keeping(store, token, t) ==
    [n \in DOMAIN store |->
        [store[n] EXCEPT
            !.owner_left = IF store[n].owner = token THEN Some(t) ELSE @]]

\* mutant: every session is marked, whoever owns it
close_sessions_marking_all(store, token, t) ==
    [n \in DOMAIN store |->
        [store[n] EXCEPT !.owner_left = Some(t), !.clients = @ \ {token}]]

\* the loop of on_close over sessions.values_mut()
close_sessions(store, token, t) ==
    [n \in DOMAIN store |->
        [store[n] EXCEPT
            !.owner_left = IF store[n].owner = token THEN Some(t) ELSE @,
            !.clients = @ \ {token}]]

\* ------------------------------------------------- Session of session.rs
\* Session::new
Session_new(owner, token, owner_token) ==
    [owner |-> owner, owner_token |-> owner_token, clients |-> << >>,
     playing |-> FALSE, tick |-> 0, owner_left |-> None, token |-> token]

\* Session::join: clients.push(client)
Session_join(session, client) ==
    [session EXCEPT !.clients = Append(@, client)]

\* Session::set_owner
Session_set_owner(session, owner, owner_token) ==
    IF owner_token = session.owner_token
    THEN [session EXCEPT !.owner = owner, !.owner_left = None]
    ELSE session

\* Session::remove_client: clients.retain(|client| client != peer)
Session_remove_client(session, peer) ==
    [session EXCEPT !.clients = SelectSeq(@, LAMBDA client : client # peer)]

\* Instant::duration_since as called by session.rs: the Duration, saturating
\* to zero when `earlier` is later than `self`, or a panic in that case (what
\* the standard library did before it saturated)
Instant_duration_since(self, earlier) ==
    {[panicked |-> FALSE, value |-> Some(duration_since(self, earlier))]}
    \cup (IF self < earlier THEN {[panicked |-> TRUE, value |-> None]} ELSE {})

\* Session::inactive_time: self.owner_left.map(|left| left.duration_since(now)),
\* the outcomes a call can have
Session_inactive_time(session, t) ==
    IF session.owner_left = None
    THEN {[panicked |-> FALSE, value |-> None]}
    ELSE Instant_duration_since(Unwrap(session.owner_left), t)

\* the owner of the Session disconnects: owner_left = Some(Instant::now())
Session_owner_left(session, t) == [session EXCEPT !.owner_left = Some(t)]

\* Session::handle_command
Session_handle_command(session, command) ==
    IF command.type = "tick" THEN [session EXCEPT !.tick = command.tick]
    ELSE IF command.type = "play" THEN [session EXCEPT !.playing = command.play]
    ELSE session

\* ---------------------------------------------------------------- Init
InitServer(frame_limit) ==
    /\ sessions = << >>
    /\ conn = [p \in Peers |-> "new"]
    /\ now = 0
    /\ out = NoOutput
    /\ last = Event("init", 0, "", "", 0, FALSE)
    /\ committed = [n \in Names |-> [tick |-> 0, play |-> FALSE]]
    /\ absent = << >>
    /\ frames = 0
    /\ limit = frame_limit
    /\ failed = {}
    /\ result = "Ok"
    /\ veterans = [n \in Names |-> {}]
    /\ former = [n \in Names |-> {}]
    /\ before = << >>

\* no call of Session::inactive_time yet
NoCall ==
    [called |-> FALSE, now |-> 0, owner_left |-> None, panicked |-> FALSE,
     value |-> None]

Init ==
    /\ InitServer(MaxFrames)
    /\ rs = << >>
    /\ inactive = NoCall

\* the single-session scenarios: more frames, handled for one name and token
InitScenario ==
    /\ InitServer(ScenarioFrames)
    /\ rs = << >>
    /\ inactive = NoCall

\* one connection owning several sessions: every name, one token
InitForward ==
    /\ InitServer(ForwardFrames)
    /\ rs = << >>
    /\ inactive = NoCall

\* a Session of session.rs, just constructed
InitSession ==
    /\ InitServer(MaxFrames)
    /\ \E o \in Peers, n \in Names, t \in Tokens : rs = Session_new(o, n, t)
    /\ inactive = NoCall

\* -------------------------------------------------------------- actions
\* a connection is accepted: the factory closure builds its Server handler
Connect(p) ==
    /\ conn[p] = "new"
    /\ conn' = [conn EXCEPT ![p] = "open"]
    /\ before' = sessions
    /\ out' = NoOutput
    /\ failed' = {}
    /\ last' = Event("connect", p, "", "", 0, FALSE)
    /\ UNCHANGED <<sessions, now, committed, frames, limit, result, veterans, absent, former, rs, inactive>>

Remove(f, n) == [m \in DOMAIN f \ {n} |-> f[m]]

\* on_message with a Create command
Create(p, n, t) ==
    /\ conn[p] = "open"
    /\ frames < limit
    /\ frames' = frames + 1
    /\ before' = sessions
    /\ LET present == n \in DOMAIN sessions
           entry == IF present
                    THEN [sessions EXCEPT ![n] = set_owner(@, p, t)]
                    ELSE (n :> SessionNew(p, t)) @@ sessions
           reclaimed == present /\ t = sessions[n].owner_token
       IN /\ sessions' = gc_sessions(entry, now)
          /\ last' = Event("create", p, n, t, 0, FALSE)
          /\ committed' = IF present THEN committed
                          ELSE [committed EXCEPT ![n] = [tick |-> 0, play |-> FALSE]]
          /\ veterans' = IF present THEN veterans ELSE [veterans EXCEPT ![n] = {}]
          /\ absent' = IF ~present \/ reclaimed THEN Remove(absent, n) ELSE absent
          /\ former' = [m \in Names |->
                IF m \notin DOMAIN gc_sessions(entry, now) \/ (m = n /\ ~present)
                THEN {}
                ELSE IF m = n /\ reclaimed
                THEN (former[n] \cup {q \in {sessions[n].owner} : conn[q] = "open"}) \ {p}
                ELSE former[m]]
    /\ out' = NoOutput
    /\ failed' = {}
    /\ result' = on_message_result(Some("create"))
    /\ UNCHANGED <<conn, now, limit, rs, inactive>>

\* on_message with a Join command (the results of its two sends are discarded)
Join(p, n) ==
    /\ conn[p] = "open"
    /\ frames < limit
    /\ frames' = frames + 1
    /\ before' = sessions
    /\ IF n \in DOMAIN sessions
       THEN /\ out' = [NoOutput EXCEPT ![p] = initial_state(sessions[n], n)]
            /\ sessions' = [sessions EXCEPT ![n] = join(@, p)]
       ELSE /\ out' = NoOutput
            /\ sessions' = sessions
    /\ failed' = {}
    /\ result' = on_message_result(Some("join"))
    /\ last' = Event("join", p, n, "", 0, FALSE)
    /\ UNCHANGED <<conn, now, committed, limit, veterans, absent, former, rs, inactive>>

Authorised(p, n) == n \in DOMAIN sessions /\ sessions[n].owner = p

\* the connections a command of p for n is forwarded to
Recipients(p, n) == IF Authorised(p, n) THEN sessions[n].clients ELSE {}

\* on_message with a Tick command
Tick(p, n, v, failing) ==
    /\ conn[p] = "open"
    /\ frames < limit
    /\ frames' = frames + 1
    /\ before' = sessions
    /\ failing \subseteq Recipients(p, n)
    /\ LET updated == IF n \in DOMAIN sessions
                      THEN set_tick(sessions[n], v) ELSE << >>
           r == update_session_and_forward(p, sessions, n, updated, TickCmd(n, v), failing)
       IN /\ sessions' = r.store
          /\ out' = r.sent
    /\ failed' = failing
    /\ result' = on_message_result(Some("tick"))
    /\ committed' = IF Authorised(p, n)
                    THEN [committed EXCEPT ![n].tick = v] ELSE committed
    /\ last' = Event("tick", p, n, "", v, FALSE)
    /\ UNCHANGED <<conn, now, limit, veterans, absent, former, rs, inactive>>

\* on_message with a Play command
Play(p, n, b, failing) ==
    /\ conn[p] = "open"
    /\ frames < limit
    /\ frames' = frames + 1
    /\ before' = sessions
    /\ failing \subseteq Recipients(p, n)
    /\ LET updated == IF n \in DOMAIN sessions
                      THEN set_playing(sessions[n], b) ELSE << >>
           r == update_session_and_forward(p, sessions, n, updated, PlayCmd(n, b), failing)
       IN /\ sessions' = r.store
          /\ out' = r.sent
    /\ failed' = failing
    /\ result' = on_message_result(Some("play"))
    /\ committed' = IF Authorised(p, n)
                    THEN [committed EXCEPT ![n].play = b] ELSE committed
    /\ last' = Event("play", p, n, "", 0, b)
    /\ UNCHANGED <<conn, now, limit, veterans, absent, former, rs, inactive>>

\* on_message with a frame that is not text or does not decode to a SyncCommand
BadFrame(p, frame) ==
    /\ conn[p] = "open"
    /\ from_str(frame) = None
    /\ frames < limit
    /\ frames' = frames + 1
    /\ before' = sessions
    /\ out' = NoOutput
    /\ failed' = {}
    /\ result' = on_message_result(from_str(frame))
    /\ last' = Event("frame", p, "", "", 0, FALSE)
    /\ UNCHANGED <<sessions, conn, now, committed, limit, veterans, absent, former, rs, inactive>>

\* Server::on_close
on_close(p) ==
    /\ conn[p] = "open"
    /\ conn' = [conn EXCEPT ![p] = "closed"]
    /\ before' = sessions
    /\ sessions' = close_sessions(sessions, p, now)
    /\ absent' = [n \in DOMAIN absent \cup {m \in DOMAIN sessions : sessions[m].owner = p} |->
                      IF n \in DOMAIN sessions /\ sessions[n].owner = p
                      THEN [since |-> now, token |-> sessions[n].owner_token]
                      ELSE absent[n]]
    /\ veterans' = [n \in Names |->
                      IF n \in DOMAIN sessions /\ sessions[n].owner = p
                      THEN sessions[n].clients \ {p}
                      ELSE veterans[n] \ {p}]
    /\ former' = [n \in Names |-> former[n] \ {p}]
    /\ out' = NoOutput
    /\ failed' = {}
    /\ last' = Event("close", p, "", "", 0, FALSE)
    /\ UNCHANGED <<now, committed, frames, limit, result, rs, inactive>>

\* time passes (Instant::now() is monotonic)
Advance ==
    /\ now + TimeStep <= MaxClock * TimeStep
    /\ now' = now + TimeStep
    /\ before' = sessions
    /\ out' = NoOutput
    /\ failed' = {}
    /\ last' = Event("advance", 0, "", "", 0, FALSE)
    /\ UNCHANGED <<sessions, conn, committed, frames, limit, result, veterans, absent, former, rs, inactive>>

\* the operations on a Session of session.rs
RsJoin(p) ==
    /\ Len(rs.clients) < MaxMembers
    /\ rs' = Session_join(rs, p)
    /\ UNCHANGED <<server_vars, inactive>>

RsRemoveClient(p) ==
    /\ rs' = Session_remove_client(rs, p)
    /\ UNCHANGED <<server_vars, inactive>>

RsSetOwner(p, t) ==
    /\ rs' = Session_set_owner(rs, p, t)
    /\ UNCHANGED <<server_vars, inactive>>

RsHandleCommand(command) ==
    /\ rs' = Session_handle_command(rs, command)
    /\ UNCHANGED <<server_vars, inactive>>

\* the owner of rs disconnects
RsOwnerLeft ==
    /\ rs.owner_left = None
    /\ rs' = Session_owner_left(rs, now)
    /\ UNCHANGED <<server_vars, inactive>>

\* the sweep asks rs how long its owner has been away
RsInactiveTime ==
    /\ \E r \in Session_inactive_time(rs, now) :
          inactive' = [called |-> TRUE, now |-> now, owner_left |-> rs.owner_left,
                       panicked |-> r.panicked, value |-> r.value]
    /\ UNCHANGED <<server_vars, rs>>

\* time passes for rs
RsAdvance ==
    /\ now + TimeStep <= MaxClock * TimeStep
    /\ now' = now + TimeStep
    /\ UNCHANGED <<relay_vars, rs, inactive>>

NextOver(peers, names, tokens) ==
    \/ \E p \in peers : Connect(p)
    \/ \E p \in peers, n \in names, t \in tokens : Create(p, n, t)
    \/ \E p \in peers, n \in names : Join(p, n)
    \/ \E p \in peers, n \in names, v \in Ticks :
          \E failing \in SUBSET Recipients(p, n) : Tick(p, n, v, failing)
    \/ \E p \in peers, n \in names, b \in BOOLEAN :
          \E failing \in SUBSET Recipients(p, n) : Play(p, n, b, failing)
    \/ \E p \in peers, frame \in BadFrames : BadFrame(p, frame)
    \/ \E p \in peers : on_close(p)
    \/ Advance

\* two connections, every name and token
Next == NextOver(TwoPeers, Names, Tokens)

\* every connection, one name and one token
NextScenario == NextOver(Peers, ScenarioNames, ScenarioTokens)

\* two connections, every name, one token
NextForward == NextOver(TwoPeers, Names, ScenarioTokens)

NextSession ==
    \/ \E p \in Peers : RsJoin(p)
    \/ \E p \in Peers : RsRemoveClient(p)
    \/ \E p \in Peers, t \in Tokens : RsSetOwner(p, t)
    \/ \E n \in Names, v \in Ticks : RsHandleCommand(TickCmd(n, v))
    \/ \E n \in Names, b \in BOOLEAN : RsHandleCommand(PlayCmd(n, b))
    \/ RsOwnerLeft
    \/ RsInactiveTime
    \/ RsAdvance

Spec == Init /\ [][Next]_vars

SpecScenario == InitScenario /\ [][NextScenario]_vars

SpecForward == InitForward /\ [][NextForward]_vars

SpecSession == InitSession /\ [][NextSession]_vars

\* ---------------------------------------------------------------- claims
Elapsed(session) == duration_since(now, Unwrap(session.owner_left))

\* C1: a Tick or Play from a peer that is not the recorded owner of the
\* session it names leaves the whole store unchanged and sends no message.
C1_NonOwnerIgnored ==
    (/\ last.op \in {"tick", "play"}
     /\ last.session \in DOMAIN before
     /\ before[last.session].owner # last.peer)
    => (sessions = before /\ out = NoOutput)

\* a member that is not the owner sent a Tick whose value differs from the
\* session's tick
C1_Witness ==
    /\ last.op = "tick"
    /\ last.session \in DOMAIN before
    /\ before[last.session].owner # last.peer
    /\ last.peer \in before[last.session].clients
    /\ last.tick # before[last.session].tick

\* C2: a Join on an existing session sends the caller, first, the tick message
\* and, second, the play message, carrying the values of the most recent
\* owner-authorised Tick and Play on that session (0 and false if none).
C2_JoinInitialState ==
    (last.op = "join" /\ last.session \in DOMAIN before)
    => /\ Len(out[last.peer]) >= 2
       /\ out[last.peer][1] = TickCmd(last.session, committed[last.session].tick)
       /\ out[last.peer][2] = PlayCmd(last.session, committed[last.session].play)

\* a Join on a session whose owner had moved the tick away from its default
C2_Witness ==
    /\ last.op = "join"
    /\ last.session \in DOMAIN before
    /\ committed[last.session].tick > 0
    /\ before[last.session].owner # last.peer

\* C3: after a Create has been handled, no session whose owner has been absent
\* for more than TIMEOUT is in the store.
C3_ExpiredCollected ==
    last.op = "create"
    => \A n \in DOMAIN sessions :
          sessions[n].owner_left = None \/ Elapsed(sessions[n]) <= TIMEOUT

\* C4: the sweep that follows a Create removes no session whose owner is
\* present or has been absent for at most TIMEOUT.
C4_OnlyExpiredCollected ==
    last.op = "create"
    => \A n \in DOMAIN before :
          (before[n].owner_left = None \/ Elapsed(before[n]) <= TIMEOUT)
          => n \in DOMAIN sessions

\* C5: once the owner of a session has disconnected, a Create for its name with
\* its token at most TIMEOUT later, whatever was handled in between, finds the
\* session in the store and leaves it with owner = caller, owner_left cleared
\* and every other field as it was.
C5_ReclaimWithinWindow ==
    [][\A n \in Names :
          (/\ last'.op = "create"
           /\ last'.session = n
           /\ n \in DOMAIN absent
           /\ last'.token = absent[n].token
           /\ duration_since(now, absent[n].since) <= TIMEOUT)
          => /\ n \in DOMAIN sessions
             /\ n \in DOMAIN sessions'
             /\ sessions'[n] = [sessions[n] EXCEPT !.owner = last'.peer,
                                                   !.owner_left = None]]_vars

\* C6: every session has one owner, a connection token, and the owner of a
\* session present before and after a step differs only if the step was a
\* Create for that session carrying its owner_token.
C6_OwnerChangesOnlyByMatchingCreate ==
    \A n \in DOMAIN sessions :
       /\ sessions[n].owner \in Peers
       /\ (n \in DOMAIN before /\ sessions[n].owner # before[n].owner)
          => /\ last.op = "create"
             /\ last.session = n
             /\ last.token = before[n].owner_token

\* a Create with the matching token moved a session to another connection
C6_Witness ==
    /\ last.op = "create"
    /\ last.session \in DOMAIN before
    /\ last.session \in DOMAIN sessions
    /\ before[last.session].owner # last.peer
    /\ sessions[last.session].owner = last.peer

C8_CreateInsertsFreshSession ==
    (last.op = "create" /\ last.session \notin DOMAIN before)
    => /\ last.session \in DOMAIN sessions
       /\ sessions[last.session] =
             [owner |-> last.peer, owner_token |-> last.token, clients |-> {},
              playing |-> FALSE, tick |-> 0, owner_left |-> None]

\* a Create inserted a session while another session was in the store
C8_Witness ==
    /\ last.op = "create"
    /\ last.session \notin DOMAIN before
    /\ before # << >>
    /\ last.session \in DOMAIN sessions

\* C9: a Tick (Play) from the owner of an existing session stores the received
\* value and sends the received command once to each member of the session and
\* to no other connection.
C9_OwnerUpdateForwarded ==
    (/\ last.op \in {"tick", "play"}
     /\ last.session \in DOMAIN before
     /\ before[last.session].owner = last.peer)
    => LET n == last.session
           command == IF last.op = "tick" THEN TickCmd(n, last.tick)
                      ELSE PlayCmd(n, last.play)
       IN /\ n \in DOMAIN sessions
          /\ last.op = "tick" => sessions[n].tick = last.tick
          /\ last.op = "play" => sessions[n].playing = last.play
          /\ \A p \in Peers :
                out[p] = IF p \in before[n].clients THEN <<command>> ELSE <<>>

\* the owner, not a member itself, changed the tick of a session with a member
C9_Witness ==
    /\ last.op = "tick"
    /\ last.session \in DOMAIN before
    /\ before[last.session].owner = last.peer
    /\ before[last.session].clients # {}
    /\ last.peer \notin before[last.session].clients
    /\ last.tick # before[last.session].tick

\* C10: a Join on an existing session sends the session's owner a clients
\* message carrying the member count after the join.
C10_OwnerNotifiedOfJoin ==
    (last.op = "join" /\ last.session \in DOMAIN before)
    => LET n == last.session
           owner == sessions[n].owner
       IN \E i \in 1..Len(out[owner]) :
             out[owner][i] = [type |-> "clients", session |-> n,
                              count |-> Cardinality(sessions[n].clients)]

\* the command the last Tick or Play frame carried
LastCommand ==
    IF last.op = "tick" THEN TickCmd(last.session, last.tick)
    ELSE PlayCmd(last.session, last.play)

\* the last step was a Tick or Play from the owner of an existing session
OwnerUpdate ==
    /\ last.op \in {"tick", "play"}
    /\ last.session \in DOMAIN before
    /\ before[last.session].owner = last.peer

\* C11: a Join, Tick or Play naming a session that is not in the store changes
\* nothing in the store and sends no message.
C11_UnknownSessionNoOp ==
    (last.op \in {"join", "tick", "play"} /\ last.session \notin DOMAIN before)
    => (sessions = before /\ out = NoOutput)

\* a Tick named a session that is not in the store while another session,
\* owned by the sender, was
C11_Witness ==
    /\ last.op = "tick"
    /\ last.session \notin DOMAIN before
    /\ \E n \in DOMAIN before : before[n].owner = last.peer

\* C12: a disconnect removes the connection from the members of every session,
\* marks every session it owns with owner_left = the time of the disconnect and
\* keeps all sessions in the store; a disconnected connection is a member of no
\* session and is sent nothing.
C12_DisconnectCleansUp ==
    /\ last.op = "close"
       => /\ DOMAIN sessions = DOMAIN before
          /\ \A n \in DOMAIN before :
                /\ sessions[n].clients = before[n].clients \ {last.peer}
                /\ before[n].owner = last.peer => sessions[n].owner_left = Some(now)
    /\ \A p \in Peers :
          conn[p] = "closed"
          => /\ out[p] = <<>>
             /\ \A n \in DOMAIN sessions : p \notin sessions[n].clients

\* the connection that disconnected owned a session and was a member of one
C12_Witness ==
    /\ last.op = "close"
    /\ \E n \in DOMAIN before : before[n].owner = last.peer
    /\ \E n \in DOMAIN before : last.peer \in before[n].clients

\* C13: owner_left of a session is set exactly when the connection recorded as
\* its owner has disconnected, and a step clears it only if it is a Create for
\* that session carrying its owner_token.
C13_AbsenceMarker ==
    /\ \A n \in DOMAIN sessions :
          (sessions[n].owner_left # None) <=> (conn[sessions[n].owner] = "closed")
    /\ \A n \in DOMAIN sessions \cap DOMAIN before :
          (before[n].owner_left # None /\ sessions[n].owner_left = None)
          => /\ last.op = "create"
             /\ last.session = n
             /\ last.token = before[n].owner_token

\* a Create with the matching token cleared the marker of an abandoned session
C13_Witness ==
    /\ last.op = "create"
    /\ last.session \in DOMAIN before
    /\ before[last.session].owner_left # None
    /\ last.session \in DOMAIN sessions
    /\ sessions[last.session].owner_left = None

\* C14: the members a session had when its owner disconnected, and that are
\* still connected, are members of it for as long as it is in the store, also
\* after a reclaim, and each is sent the Tick and Play commands of its owner.
C14_MembersSurviveReclaim ==
    /\ \A n \in DOMAIN sessions : veterans[n] \subseteq sessions[n].clients
    /\ OwnerUpdate
       => \A p \in veterans[last.session] : out[p] = <<LastCommand>>

\* after the owner moved the tick and disconnected, another connection took the
\* session over with the token and sent Play, with a member from before the
\* disconnect still there and the tick as the first owner left it
C14_Witness ==
    /\ OwnerUpdate
    /\ last.op = "play"
    /\ veterans[last.session] # {}
    /\ last.peer \notin veterans[last.session]
    /\ sessions[last.session].tick > 0
    /\ \E p \in Peers : conn[p] = "closed"

\* C15: a step other than a Create removes no session from the store.
C15_OnlyCreateRemoves ==
    last.op # "create" => DOMAIN before \subseteq DOMAIN sessions

\* the owner of a session disconnected
C15_Witness ==
    /\ last.op = "close"
    /\ \E n \in DOMAIN before : before[n].owner = last.peer /\ n \in DOMAIN sessions

\* C16: the sweep that follows a Create keeps every session whose owner_left
\* is not set, whatever the time.
C16_PresentOwnerRetained ==
    last.op = "create"
    => \A n \in DOMAIN before :
          before[n].owner_left = None => n \in DOMAIN sessions

\* more than TIMEOUT after the start, a Create for one name swept a store that
\* held a session under another name whose owner never left
C16_Witness ==
    /\ last.op = "create"
    /\ now > TIMEOUT
    /\ \E n \in DOMAIN before :
          n # last.session /\ before[n].owner_left = None /\ n \in DOMAIN sessions

\* C17: no connection is recorded more than once in the clients of a Session.
C17_MembersAreASet ==
    \A p \in Peers : Cardinality({i \in DOMAIN rs.clients : rs.clients[i] = p}) <= 1

\* C18: the owner_token of a session that stays in the store never changes.
C18_OwnerTokenFixed ==
    \A n \in DOMAIN sessions \cap DOMAIN before :
       sessions[n].owner_token = before[n].owner_token

\* the owner of a session sent a Create for it with another token
C18_Witness ==
    /\ last.op = "create"
    /\ last.session \in DOMAIN before
    /\ last.session \in DOMAIN sessions
    /\ before[last.session].owner = last.peer
    /\ last.token # before[last.session].owner_token

\* C19: when the send to some member fails during the fan-out of an owner's
\* Tick or Play, on_message still returns Ok, the value is stored and the
\* command is sent to every other member.
C19_FailedSendIgnored ==
    (OwnerUpdate /\ failed # {})
    => /\ result = "Ok"
       /\ last.session \in DOMAIN sessions
       /\ last.op = "tick" => sessions[last.session].tick = last.tick
       /\ last.op = "play" => sessions[last.session].playing = last.play
       /\ \A p \in before[last.session].clients \ failed : out[p] = <<LastCommand>>

\* the send to one member failed and a member with a larger token, visited
\* later by a loop in token order, got the new tick
C19_Witness ==
    /\ OwnerUpdate
    /\ last.op = "tick"
    /\ last.tick # before[last.session].tick
    /\ \E q \in failed : \E p \in before[last.session].clients \ failed : q < p

\* C20: a frame that is not text or does not decode to a command changes
\* nothing in the store, sends no message, makes on_message return Ok and
\* leaves the connection open.
C20_BadFrameDiscarded ==
    last.op = "frame"
    => /\ sessions = before
       /\ out = NoOutput
       /\ result = "Ok"
       /\ conn[last.peer] = "open"

\* such a frame arrived while there was a session in the store, with room for
\* the connection to send more frames
C20_Witness ==
    /\ last.op = "frame"
    /\ before # << >>
    /\ frames < limit

\* C21: once a Create carrying the token has given a session to another
\* connection while its previous owner was connected, a Tick or Play of the
\* previous owner on it changes nothing and sends nothing, the disconnect of
\* the previous owner leaves its owner and owner_left as they were, and its
\* owner_left is set only by the disconnect of the connection that owns it.
C21_DisplacedOwnerIgnored ==
    [][/\ (/\ last'.op \in {"tick", "play"}
           /\ last'.session \in DOMAIN sessions
           /\ last'.peer \in former[last'.session])
          => (sessions' = sessions /\ out' = NoOutput)
       /\ \A n \in DOMAIN sessions :
             (last'.op = "close" /\ last'.peer \in former[n])
             => /\ n \in DOMAIN sessions'
                /\ sessions'[n].owner = sessions[n].owner
                /\ sessions'[n].owner_left = sessions[n].owner_left
       /\ \A n \in DOMAIN sessions \cap DOMAIN sessions' :
             (/\ former[n] # {}
              /\ sessions'[n].owner_left # sessions[n].owner_left
              /\ sessions'[n].owner_left # None)
             => /\ last'.op = "close"
                /\ last'.peer = sessions[n].owner
                /\ sessions'[n].owner_left = Some(now)]_vars

\* the previous owner of a session, still connected after another connection
\* had taken the session over, sent a Tick with another value than its tick
C21_Witness ==
    /\ last.op = "tick"
    /\ last.session \in DOMAIN before
    /\ last.peer \in former[last.session]
    /\ conn[before[last.session].owner] = "open"
    /\ last.tick # before[last.session].tick

\* C22: a Join, Tick or Play naming session s removes and inserts no session,
\* leaves every session under another name as it was and sends nothing to a
\* connection that is not a member of s after it, whoever owns the other
\* sessions.
C22_OtherSessionsUntouched ==
    last.op \in {"join", "tick", "play"}
    => /\ DOMAIN sessions = DOMAIN before
       /\ \A n \in DOMAIN before \ {last.session} : sessions[n] = before[n]
       /\ \A p \in Peers :
             (last.session \notin DOMAIN sessions
              \/ p \notin sessions[last.session].clients)
             => out[p] = <<>>

\* the owner of two sessions moved the tick of one of them while the other had
\* a member that was not a member of the first
C22_Witness ==
    /\ OwnerUpdate
    /\ last.op = "tick"
    /\ last.tick # before[last.session].tick
    /\ \E n \in DOMAIN before \ {last.session} :
          /\ before[n].owner = last.peer
          /\ \E p \in before[n].clients : p \notin before[last.session].clients

\* C23: Session::inactive_time(now) returns None when owner_left is not set
\* and otherwise, now being at or after owner_left, returns now - owner_left,
\* which is more than TIMEOUT exactly when the owner has been away for more
\* than TIMEOUT.
C23_InactiveTimeElapsed ==
    inactive.called
    => /\ ~inactive.panicked
       /\ inactive.owner_left = None => inactive.value = None
       /\ (inactive.owner_left # None /\ inactive.now >= Unwrap(inactive.owner_left))
          => LET away == inactive.now - Unwrap(inactive.owner_left)
             IN /\ inactive.value = Some(away)
                /\ (Unwrap(inactive.value) > TIMEOUT) <=> (away > TIMEOUT)

====
